---- MODULE Spec2Model ----
(***************************************************************************)
(* A model of git-metrics: backend.py starts github_metrics.py for a       *)
(* caller's date range; github_metrics.py selects the recent branches of   *)
(* a repository, runs one process_branch task per branch on a thread pool  *)
(* (all tasks share the set processed_commits), merges the tasks' partial  *)
(* maps into all_user_metrics and writes two tables.                       *)
(***************************************************************************)
EXTENDS Integers, Sequences, FiniteSets, TLC

\* ------------------------------------------------------------- bounds
NumBranches == 3     \* branches of the modelled repository
PoolSize == 2        \* worker threads of the ThreadPoolExecutor
MaxFailures == 1     \* failing API calls injected into one run

\* ------------------------------------------------- program constants
DaySeconds == 86400       \* timedelta(days=1)
RecentBranchDays == 90    \* get_recent_branches(repo, days=90)
WindowDays == 220         \* end_date - timedelta(days=220)

\* ------------------------------------------ the repository (the input)
\* Every branch lists the shared root commit first and then its own tip
\* commit, so the root commit is returned by the listing of every branch.
Branches == 1..NumBranches
RootSha == "c1"
TipSha(b) == IF b = 1 THEN "c2" ELSE IF b = 2 THEN "c3" ELSE IF b = 3 THEN "c4" ELSE "c5"
Shas == {RootSha} \cup {TipSha(b) : b \in Branches}
BranchListing(b) == <<RootSha, TipSha(b)>>

None == -1           \* Python's None where an integer is expected
Unknown == "Unknown"

\* commit.author.login; "" when commit.author is None (GitHub resolves no
\* user for the commit)
CommitLogin(c) ==
    IF c = "c1" THEN "bob"
    ELSE IF c \in {"c2", "c3"} THEN "alice"
    ELSE IF c = "c4" THEN "" ELSE "bob"
HasAuthor(c) == CommitLogin(c) # ""

\* commit.commit.author.date, in seconds
CommitDay(c) == IF c = "c1" THEN 150 ELSE IF c \in {"c2", "c3"} THEN 220 ELSE 300
CommitSecond(c) == IF c = "c3" THEN 86399 ELSE 3600
CommitTime(c) == CommitDay(c) * DaySeconds + CommitSecond(c)

\* commit.files: (filename, additions, deletions)
CommitFiles(c) ==
    IF c = "c1"
    THEN << [filename |-> "a.py", additions |-> 3, deletions |-> 1],
            [filename |-> "b.py", additions |-> None, deletions |-> 2] >>
    ELSE IF c = "c2"
    THEN << [filename |-> "a.py", additions |-> 1, deletions |-> None] >>
    ELSE IF c = "c3"
    THEN << [filename |-> "c.py", additions |-> 5, deletions |-> 2] >>
    ELSE << [filename |-> "a.py", additions |-> 2, deletions |-> 2] >>

\* datetime.now(timezone.utc) of a run: one with every branch recent, one
\* with only the late branches recent and the root commit older than the
\* window, one with no recent branch.
Clock == {305 * DaySeconds + 43200, 380 * DaySeconds + 43200, 445 * DaySeconds + 43200}

\* Times are seconds since 2024-01-01 00:00 UTC, days are days since then.
\* datetime.strptime(s, '%Y-%m-%d'): the day of a date text; "2024-02-30"
\* is no date and makes strptime raise ValueError
DateTexts == {"2024-05-30", "2024-08-08", "2024-10-27"}
strptime(s) == IF s = "2024-05-30" THEN 150 ELSE IF s = "2024-08-08" THEN 220 ELSE 300

\* the requests a caller sends: the handler's route and the `from` and `to`
\* arguments ("": the argument is missing)
Req(h, f, t) == [handler |-> h, from_date |-> f, to_date |-> t]
Requests ==
    { Req("metrics", "2024-08-08", "2024-08-08"),
      Req("metrics", "2024-05-30", "2024-10-27"),
      Req("refresh", "2024-05-30", "2024-10-27"),
      Req("metrics", "", "2024-08-08"),
      Req("refresh", "2024-05-30", ""),
      Req("metrics", "2024-02-30", "2024-08-08"),
      Req("refresh", "2024-05-30", "2024-02-30") }

Users == {"alice", "bob", Unknown}

\* ------------------------------------------------------ UserActivity
\* defaultdict(lambda: {...}): a missing user reads as a fresh record
NewActivity ==
    [commits |-> 0, files_changed |-> {}, lines_added |-> 0, lines_removed |-> 0,
     coding_days |-> {}, commits_per_day |-> [d \in {} |-> 0]]
EmptyMap == [u \in {} |-> NewActivity]

Get(m, u) == IF u \in DOMAIN m THEN m[u] ELSE NewActivity
Put(m, u, a) == [x \in (DOMAIN m) \cup {u} |-> IF x = u THEN a ELSE m[x]]
\* defaultdict(int)
CountAt(cpd, d) == IF d \in DOMAIN cpd THEN cpd[d] ELSE 0
AddCount(cpd, d, n) ==
    [x \in (DOMAIN cpd) \cup {d} |-> IF x = d THEN CountAt(cpd, d) + n ELSE cpd[x]]

RECURSIVE SumCounts(_)
SumCounts(cpd) ==
    IF DOMAIN cpd = {} THEN 0
    ELSE LET d == CHOOSE x \in DOMAIN cpd : TRUE
         IN cpd[d] + SumCounts([x \in (DOMAIN cpd) \ {d} |-> cpd[x]])

\* commit_author without the fallback of line 79
commit_author_login_only(c) == CommitLogin(c)

commit_author(c) == IF HasAuthor(c) THEN CommitLogin(c) ELSE Unknown
commit_date(c) == CommitTime(c) \div DaySeconds

\* RecordCommit without line 94
RecordCommitNoCodingDay(m, c) ==
    LET a == Get(m, commit_author(c))
    IN Put(m, commit_author(c),
           [a EXCEPT !.commits = @ + 1,
                     !.commits_per_day = AddCount(@, commit_date(c), 1)])

\* lines 93-95 of process_branch
RecordCommit(m, c) ==
    LET a == Get(m, commit_author(c))
    IN Put(m, commit_author(c),
           [a EXCEPT !.commits = @ + 1,
                     !.coding_days = @ \cup {commit_date(c)},
                     !.commits_per_day = AddCount(@, commit_date(c), 1)])

\* lines 100-104 of process_branch, for one file
AddFile(a, file) ==
    [a EXCEPT !.files_changed = @ \cup {file.filename},
              !.lines_added = IF file.additions # None THEN @ + file.additions ELSE @,
              !.lines_removed = IF file.deletions # None THEN @ + file.deletions ELSE @]

\* lines 99-104: the loop over the first k files of the commit
RECURSIVE AddFiles(_, _, _)
AddFiles(a, files, k) ==
    IF k = 0 THEN a ELSE AddFile(AddFiles(a, files, k - 1), files[k])

RecordFiles(m, c, k) ==
    Put(m, commit_author(c), AddFiles(Get(m, commit_author(c)), CommitFiles(c), k))

\* lines 141-147 of get_all_user_metrics, for one user of a partial map
RECURSIVE MergeCounts(_, _)
MergeCounts(into, cpd) ==
    IF DOMAIN cpd = {} THEN into
    ELSE LET d == CHOOSE x \in DOMAIN cpd : TRUE
         IN MergeCounts(AddCount(into, d, cpd[d]),
                        [x \in (DOMAIN cpd) \ {d} |-> cpd[x]])

\* MergeUser with line 147 assigning the count instead of adding it
MergeUserAssignsDayCount(g, metrics) ==
    [commits |-> g.commits + metrics.commits,
     files_changed |-> g.files_changed \cup metrics.files_changed,
     lines_added |-> g.lines_added + metrics.lines_added,
     lines_removed |-> g.lines_removed + metrics.lines_removed,
     coding_days |-> g.coding_days \cup metrics.coding_days,
     commits_per_day |->
        [d \in (DOMAIN g.commits_per_day) \cup (DOMAIN metrics.commits_per_day) |->
            IF d \in DOMAIN metrics.commits_per_day
            THEN metrics.commits_per_day[d] ELSE g.commits_per_day[d]]]

\* MergeUser with line 143 assigning the lines instead of adding them
MergeUserAssignsLines(g, metrics) ==
    [commits |-> g.commits + metrics.commits,
     files_changed |-> g.files_changed \cup metrics.files_changed,
     lines_added |-> metrics.lines_added,
     lines_removed |-> g.lines_removed + metrics.lines_removed,
     coding_days |-> g.coding_days \cup metrics.coding_days,
     commits_per_day |-> MergeCounts(g.commits_per_day, metrics.commits_per_day)]

MergeUser(g, metrics) ==
    [commits |-> g.commits + metrics.commits,
     files_changed |-> g.files_changed \cup metrics.files_changed,
     lines_added |-> g.lines_added + metrics.lines_added,
     lines_removed |-> g.lines_removed + metrics.lines_removed,
     coding_days |-> g.coding_days \cup metrics.coding_days,
     commits_per_day |-> MergeCounts(g.commits_per_day, metrics.commits_per_day)]

\* lines 140-147: the loop over one branch_activity
MergeBranch(global, activity) ==
    [u \in (DOMAIN global) \cup (DOMAIN activity) |->
        IF u \in DOMAIN activity THEN MergeUser(Get(global, u), activity[u])
        ELSE global[u]]

\* repo.get_commits(sha=branch.commit.sha, since=..., until=...)
InWindow(c, since, until) == since <= CommitTime(c) /\ CommitTime(c) <= until
get_commits(b, since, until) ==
    SelectSeq(BranchListing(b), LAMBDA c : InWindow(c, since, until))

\* branch.commit.commit.author.date
TipTime(b) == CommitTime(TipSha(b))

\* lines 36-50 of get_recent_branches: the branches, in listing order, whose
\* tip could be read and is not older than the cutoff
RECURSIVE RecentUpTo(_, _, _)
RecentUpTo(n, cutoff_date, broken) ==
    IF n = 0 THEN << >>
    ELSE LET rest == RecentUpTo(n - 1, cutoff_date, broken)
         IN IF n \notin broken /\ TipTime(n) >= cutoff_date
            THEN Append(rest, n) ELSE rest
get_recent_branches(now, days, broken) ==
    RecentUpTo(NumBranches, now - days * DaySeconds, broken)

\* ---------------------------------------------------------- formatter
\* OverallRows with line 166 taking the commits for the coding days
OverallRowsDaysFromCommits(m) ==
    { [User |-> u,
       TotalCodingDays |-> m[u].commits,
       TotalCommits |-> m[u].commits,
       FilesChanged |-> Cardinality(m[u].files_changed),
       LinesAdded |-> m[u].lines_added,
       LinesRemoved |-> m[u].lines_removed] : u \in DOMAIN m }

\* lines 162-171 and 177-184 of save_all_user_metrics_to_csv
OverallRows(m) ==
    { [User |-> u,
       TotalCodingDays |-> Cardinality(m[u].coding_days),
       TotalCommits |-> m[u].commits,
       FilesChanged |-> Cardinality(m[u].files_changed),
       LinesAdded |-> m[u].lines_added,
       LinesRemoved |-> m[u].lines_removed] : u \in DOMAIN m }
DailyRows(m) ==
    UNION { { [User |-> u, Date |-> d, Commits |-> m[u].commits_per_day[d]] :
                d \in DOMAIN m[u].commits_per_day } : u \in DOMAIN m }
OverallFile == "overall_metrics"
\* backend.py line 12: the file get_metrics reads
OVERALL_METRICS_FILE == "overall_metrics.csv"
DailyFile == "commits_per_day.csv"
EmptyDir == [f \in {} |-> {}]
\* WriteFile that writes no file for a table without rows
WriteFileSkipsEmpty(dir, name, rows) ==
    IF rows = {} THEN dir
    ELSE [f \in (DOMAIN dir) \cup {name} |-> IF f = name THEN rows ELSE dir[f]]

WriteFile(dir, name, rows) ==
    [f \in (DOMAIN dir) \cup {name} |-> IF f = name THEN rows ELSE dir[f]]

\* one printed line: what it reports, the branch whose task (or whose tip)
\* it is about (0: none), the commit it names ("": none)
Line(kind, b, c) == [kind |-> kind, branch |-> b, sha |-> c]

\* -------------------------------------------------------------- state
VARIABLES
    pc,                 \* where the request / the script's main thread is
    request,            \* the caller's from/to and the range backend.py parses
    start_date,         \* the window get_github_metrics computes
    end_date,
    branches,           \* the list get_recent_branches returned (= futures)
    wpc,                \* per branch: where its process_branch task is
    widx,               \* per branch: commits of its listing iterated past
    branch_activity,    \* per branch: the task's private partial map
    processed_commits,  \* the set shared by all tasks
    all_user_metrics,   \* the global map of get_all_user_metrics
    next_future,        \* index of the future the merge loop waits for
    exit_code,          \* of the github_metrics.py process (None: none yet)
    output_dir,         \* metrics_output: file name -> rows
    printed,            \* the lines the script printed so far (order dropped)
    failures,           \* failing API calls injected so far
    response,           \* the answer of backend.py to the last request
    removed             \* whether the cleaning just done removed earlier tables

vars == <<pc, request, start_date, end_date, branches, wpc, widx, branch_activity,
          processed_commits, all_user_metrics, next_future, exit_code, output_dir,
          printed, failures, response, removed>>

NoRequest ==
    [handler |-> "", from_date |-> "", to_date |-> "", start_date |-> None, end_date |-> None]
\* status: the HTTP status (None: no answer yet); rows: the records of a
\* 200 answer of /metrics
NoResponse == [status |-> None, rows |-> {}]
Answer(status, rows) == [status |-> status, rows |-> rows]

Init ==
    /\ pc = "idle"
    /\ request = NoRequest
    /\ start_date = None
    /\ end_date = None
    /\ branches = << >>
    /\ wpc = [b \in Branches |-> "none"]
    /\ widx = [b \in Branches |-> 0]
    /\ branch_activity = [b \in Branches |-> EmptyMap]
    /\ processed_commits = {}
    /\ all_user_metrics = EmptyMap
    /\ next_future = 1
    /\ exit_code = None
    /\ output_dir = EmptyDir
    /\ printed = {}
    /\ failures = 0
    /\ response = NoResponse
    /\ removed = FALSE

\* ------------------------------------------------------------ backend
\* Receive without the checks of lines 27-33: the script is started for
\* whatever the arguments are
ReceiveUnchecked(r) ==
    /\ pc = "idle"
    /\ exit_code' = None
    /\ request' = r @@ [start_date |-> None, end_date |-> None]
    /\ response' = NoResponse
    /\ pc' = "script"
    /\ UNCHANGED <<start_date, end_date, branches, wpc, widx, branch_activity,
                   processed_commits, all_user_metrics, next_future, output_dir,
                   printed, failures, removed>>

\* lines 24-41 of get_metrics and 67-84 of refresh_metrics (the same text):
\* a missing argument is answered 400; a text strptime rejects raises
\* ValueError, which the handler's except answers 500; otherwise the range is
\* parsed and github_metrics.py is started with the two texts as arguments.
\* The script runs as a new process: nothing of an earlier run is in memory.
Receive(r) ==
    /\ pc = "idle"
    /\ exit_code' = None
    /\ IF r.from_date = "" \/ r.to_date = ""
       THEN /\ request' = r @@ [start_date |-> None, end_date |-> None]
            /\ response' = Answer(400, {})
            /\ pc' = "idle"
       ELSE IF r.from_date \notin DateTexts
       THEN /\ request' = r @@ [start_date |-> None, end_date |-> None]
            /\ response' = Answer(500, {})
            /\ pc' = "idle"
       ELSE IF r.to_date \notin DateTexts
       THEN /\ request' = r @@ [start_date |-> strptime(r.from_date) * DaySeconds,
                                 end_date |-> None]
            /\ response' = Answer(500, {})
            /\ pc' = "idle"
       ELSE /\ request' =
                 r @@ [start_date |-> strptime(r.from_date) * DaySeconds,
                       end_date |-> strptime(r.to_date) * DaySeconds + DaySeconds - 1]
            /\ response' = NoResponse
            /\ pc' = "script"
    /\ UNCHANGED <<start_date, end_date, branches, wpc, widx, branch_activity,
                   processed_commits, all_user_metrics, next_future, output_dir,
                   printed, failures, removed>>

get_metrics == \E r \in Requests : r.handler = "metrics" /\ Receive(r)
refresh_metrics == \E r \in Requests : r.handler = "refresh" /\ Receive(r)

\* subprocess.run has returned: the script's process is gone, its exit code
\* and the output directory are what is left of it
ProcessGone ==
    /\ start_date' = None
    /\ end_date' = None
    /\ branches' = << >>
    /\ wpc' = [b \in Branches |-> "none"]
    /\ widx' = [b \in Branches |-> 0]
    /\ branch_activity' = [b \in Branches |-> EmptyMap]
    /\ processed_commits' = {}
    /\ all_user_metrics' = EmptyMap
    /\ next_future' = 1
    /\ printed' = {}
    /\ failures' = 0
    /\ removed' = FALSE

\* lines 37-60 of get_metrics: check=True turns a non-zero exit into an
\* error, answered 500; the file OVERALL_METRICS_FILE must exist, else 404;
\* the overall table has no Date column, so all its rows are returned
get_metrics_response ==
    /\ pc = "exited"
    /\ request.handler = "metrics"
    /\ response' =
         IF exit_code # 0 THEN Answer(500, {})
         ELSE IF OVERALL_METRICS_FILE \notin DOMAIN output_dir THEN Answer(404, {})
         ELSE Answer(200, output_dir[OVERALL_METRICS_FILE])
    /\ pc' = "idle"
    /\ ProcessGone
    /\ UNCHANGED <<request, exit_code, output_dir>>

\* lines 80-91 of refresh_metrics
refresh_metrics_response ==
    /\ pc = "exited"
    /\ request.handler = "refresh"
    /\ response' = IF exit_code # 0 THEN Answer(500, {}) ELSE Answer(200, {})
    /\ pc' = "idle"
    /\ ProcessGone
    /\ UNCHANGED <<request, exit_code, output_dir>>

\* ------------------------------------------------- get_github_metrics
\* NoToken without sys.exit(1) at line 201: the run goes on
NoTokenOnlyWarns ==
    /\ pc = "script"
    /\ printed' = printed \cup {Line("Error: GitHub token is required", 0, "")}
    /\ \E now \in Clock :
         /\ end_date' = now
         /\ start_date' = now - WindowDays * DaySeconds
    /\ output_dir' = EmptyDir
    /\ removed' = (output_dir # EmptyDir)
    /\ pc' = "select"
    /\ UNCHANGED <<response, request, branches, wpc, widx, branch_activity,
                   processed_commits, all_user_metrics, next_future, exit_code,
                   failures>>

\* lines 198-201: no token
NoToken ==
    /\ pc = "script"
    /\ exit_code' = 1
    /\ pc' = "exited"
    /\ printed' = printed \cup {Line("Error: GitHub token is required", 0, "")}
    /\ UNCHANGED <<response, removed, request, start_date, end_date, branches, wpc, widx,
                   branch_activity, processed_commits, all_user_metrics,
                   next_future, output_dir, failures>>

\* lines 203-208, 225-227: the repository cannot be resolved
RepoNotFound ==
    /\ pc = "script"
    /\ exit_code' = 1
    /\ pc' = "exited"
    /\ printed' = printed \cup {Line("Error: repository not found", 0, "")}
    /\ UNCHANGED <<response, removed, request, start_date, end_date, branches, wpc, widx,
                   branch_activity, processed_commits, all_user_metrics,
                   next_future, output_dir, failures>>

\* StartRun without clean_output_directory (line 213)
StartRunKeepsDir ==
    /\ pc = "script"
    /\ \E now \in Clock :
         /\ end_date' = now
         /\ start_date' = now - WindowDays * DaySeconds
    /\ removed' = FALSE
    /\ pc' = "select"
    /\ UNCHANGED <<response, request, branches, wpc, widx, branch_activity,
                   processed_commits, all_user_metrics, next_future, exit_code,
                   output_dir, printed, failures>>

\* lines 229-234, 203-218: the script reads no argument; it cleans the
\* output directory and takes the last WindowDays days as the window
StartRun ==
    /\ pc = "script"
    /\ \E now \in Clock :
         /\ end_date' = now
         /\ start_date' = now - WindowDays * DaySeconds
    /\ output_dir' = EmptyDir
    /\ removed' = (output_dir # EmptyDir)
    /\ pc' = "select"
    /\ UNCHANGED <<response, request, branches, wpc, widx, branch_activity,
                   processed_commits, all_user_metrics, next_future, exit_code,
                   printed, failures>>

\* line 125 (get_recent_branches, lines 36-50): reading a branch's tip may
\* fail; such a branch is skipped with a warning. The clock read at line 37
\* is taken to give the value read at line 216 (end_date).
SelectBranches ==
    /\ pc = "select"
    /\ \E broken \in SUBSET Branches :
         /\ failures + Cardinality(broken) <= MaxFailures
         /\ branches' = get_recent_branches(end_date, RecentBranchDays, broken)
         /\ failures' = failures + Cardinality(broken)
         /\ printed' = printed \cup {Line("Warning: Could not process branch", b, "") : b \in broken}
    /\ removed' = FALSE
    /\ pc' = "submit"
    /\ UNCHANGED <<response, request, start_date, end_date, wpc, widx, branch_activity,
                   processed_commits, all_user_metrics, next_future, exit_code,
                   output_dir>>

InList(seq) == {seq[i] : i \in 1..Len(seq)}

\* lines 126-137: fresh global map and dedup set, one future per branch
Submit ==
    /\ pc = "submit"
    /\ all_user_metrics' = EmptyMap
    /\ processed_commits' = {}
    /\ wpc' = [b \in Branches |-> IF b \in InList(branches) THEN "queued" ELSE "none"]
    /\ next_future' = 1
    /\ pc' = "merge"
    /\ UNCHANGED <<response, removed, request, start_date, end_date, branches, widx, branch_activity,
                   exit_code, output_dir, printed, failures>>

\* ----------------------------------------------------- process_branch
Started(b) == wpc[b] \in {"iter", "claim", "done", "raised"}
Finished(b) == wpc[b] \in {"done", "raised"}
Active(b) == wpc[b] \in {"iter", "claim"}

\* branch_commits of the task of branch b (line 76)
branch_commits(b) == get_commits(b, start_date, end_date)
\* the commit the task of branch b is at
commit(b) == branch_commits(b)[widx[b] + 1]

\* The pool takes the queued tasks in the order they were submitted, at most
\* PoolSize at a time; line 66-73: the task starts with an empty map.
Start(b) ==
    /\ wpc[b] = "queued"
    /\ Cardinality({x \in Branches : Active(x)}) < PoolSize
    /\ \A i \in 1..Len(branches) :
         \A j \in 1..Len(branches) :
           (i < j /\ branches[j] = b) => Started(branches[i])
    /\ wpc' = [wpc EXCEPT ![b] = "iter"]
    /\ widx' = [widx EXCEPT ![b] = 0]
    /\ branch_activity' = [branch_activity EXCEPT ![b] = EmptyMap]
    /\ UNCHANGED <<response, removed, pc, request, start_date, end_date, branches, processed_commits,
                   all_user_metrics, next_future, exit_code, output_dir, printed,
                   failures>>

\* lines 77-84: the listing is exhausted, or the next commit is read and
\* looked up in processed_commits
NextCommit(b) ==
    /\ wpc[b] = "iter"
    /\ IF widx[b] = Len(branch_commits(b))
       THEN /\ wpc' = [wpc EXCEPT ![b] = "done"]
            /\ widx' = widx
       ELSE IF commit(b) \in processed_commits
       THEN /\ widx' = [widx EXCEPT ![b] = @ + 1]
            /\ wpc' = wpc
       ELSE /\ wpc' = [wpc EXCEPT ![b] = "claim"]
            /\ widx' = widx
    /\ UNCHANGED <<response, removed, pc, request, start_date, end_date, branches, branch_activity,
                   processed_commits, all_user_metrics, next_future, exit_code,
                   output_dir, printed, failures>>

\* lines 76-77, 108-111: fetching the listing fails, at the first page or at
\* a later one; the handler prints a warning and the task returns its map.
\* raises: the handler's own print fails, and the error leaves the task.
CommitsFetchFails(b, raises) ==
    /\ wpc[b] = "iter"
    /\ failures < MaxFailures
    /\ widx[b] = 0 \/ widx[b] < Len(branch_commits(b))
    /\ failures' = failures + 1
    /\ wpc' = [wpc EXCEPT ![b] = IF raises THEN "raised" ELSE "done"]
    /\ printed' = IF raises THEN printed
                  ELSE printed \cup {Line("Warning: Could not process branch", b, "")}
    /\ UNCHANGED <<response, removed, pc, request, start_date, end_date, branches, widx,
                   branch_activity, processed_commits, all_user_metrics,
                   next_future, exit_code, output_dir>>

\* ClaimCommit counting the commit in the global map as well
ClaimCommitIntoGlobal(b) ==
    /\ wpc[b] = "claim"
    /\ processed_commits' = processed_commits \cup {commit(b)}
    /\ branch_activity' =
         [branch_activity EXCEPT ![b] =
            RecordFiles(RecordCommit(@, commit(b)), commit(b),
                        Len(CommitFiles(commit(b))))]
    /\ all_user_metrics' = RecordCommit(all_user_metrics, commit(b))
    /\ printed' = printed \cup {Line("Processing commit", b, commit(b))}
    /\ widx' = [widx EXCEPT ![b] = @ + 1]
    /\ wpc' = [wpc EXCEPT ![b] = "iter"]
    /\ UNCHANGED <<response, removed, pc, request, start_date, end_date, branches,
                   next_future, exit_code, output_dir, failures>>

\* lines 86-104: the commit is marked processed and counted, and its files
\* are added
ClaimCommit(b) ==
    /\ wpc[b] = "claim"
    /\ processed_commits' = processed_commits \cup {commit(b)}
    /\ branch_activity' =
         [branch_activity EXCEPT ![b] =
            RecordFiles(RecordCommit(@, commit(b)), commit(b),
                        Len(CommitFiles(commit(b))))]
    /\ printed' = printed \cup {Line("Processing commit", b, commit(b))}
    /\ widx' = [widx EXCEPT ![b] = @ + 1]
    /\ wpc' = [wpc EXCEPT ![b] = "iter"]
    /\ UNCHANGED <<response, removed, pc, request, start_date, end_date, branches, all_user_metrics,
                   next_future, exit_code, output_dir, failures>>

\* lines 86-107: as ClaimCommit, but reading the commit's files fails after
\* k of them were added (k = 0: the first read fails)
ClaimCommitFilesFail(b, k) ==
    /\ wpc[b] = "claim"
    /\ failures < MaxFailures
    /\ k < Len(CommitFiles(commit(b)))
    /\ failures' = failures + 1
    /\ processed_commits' = processed_commits \cup {commit(b)}
    /\ branch_activity' =
         [branch_activity EXCEPT ![b] =
            RecordFiles(RecordCommit(@, commit(b)), commit(b), k)]
    /\ printed' = printed \cup {Line("Processing commit", b, commit(b)),
                                Line("Warning: Could not process files", b, commit(b))}
    /\ widx' = [widx EXCEPT ![b] = @ + 1]
    /\ wpc' = [wpc EXCEPT ![b] = "iter"]
    /\ UNCHANGED <<response, removed, pc, request, start_date, end_date, branches, all_user_metrics,
                   next_future, exit_code, output_dir>>

\* ----------------------------------------------- get_all_user_metrics
\* MergeResult that does not wait for the task to return
MergeResultNoWait ==
    /\ pc = "merge"
    /\ next_future <= Len(branches)
    /\ wpc[branches[next_future]] \in {"iter", "claim", "done"}
    /\ all_user_metrics' =
         MergeBranch(all_user_metrics, branch_activity[branches[next_future]])
    /\ next_future' = next_future + 1
    /\ UNCHANGED <<response, removed, pc, request, start_date, end_date, branches,
                   wpc, widx, branch_activity, processed_commits, exit_code,
                   output_dir, printed, failures>>

\* lines 138-147: future.result() of the next future, then the merge of its
\* partial map
MergeResult ==
    /\ pc = "merge"
    /\ next_future <= Len(branches)
    /\ wpc[branches[next_future]] = "done"
    /\ all_user_metrics' =
         MergeBranch(all_user_metrics, branch_activity[branches[next_future]])
    /\ next_future' = next_future + 1
    /\ UNCHANGED <<response, removed, pc, request, start_date, end_date, branches, wpc, widx,
                   branch_activity, processed_commits, exit_code, output_dir,
                   printed, failures>>

\* line 139: future.result() raises the error of its task; nothing catches
\* it in get_all_user_metrics
ResultRaises ==
    /\ pc = "merge"
    /\ next_future <= Len(branches)
    /\ wpc[branches[next_future]] = "raised"
    /\ pc' = "unwind"
    /\ UNCHANGED <<response, removed, request, start_date, end_date, branches, wpc, widx,
                   branch_activity, processed_commits, all_user_metrics,
                   next_future, exit_code, output_dir, printed, failures>>

\* line 136 (the with block ends: shutdown waits for every task) and
\* line 149
ReturnMetrics ==
    /\ pc = "merge"
    /\ next_future > Len(branches)
    /\ \A b \in InList(branches) : Finished(b)
    /\ pc' = "save"
    /\ UNCHANGED <<response, removed, request, start_date, end_date, branches, wpc, widx,
                   branch_activity, processed_commits, all_user_metrics,
                   next_future, exit_code, output_dir, printed, failures>>

\* line 136 with an error pending, then lines 225-227 of get_github_metrics
RunFails ==
    /\ pc = "unwind"
    /\ \A b \in InList(branches) : Finished(b)
    /\ exit_code' = 1
    /\ pc' = "exited"
    /\ printed' = printed \cup {Line("Error: task failed", 0, "")}
    /\ UNCHANGED <<response, removed, request, start_date, end_date, branches, wpc, widx,
                   branch_activity, processed_commits, all_user_metrics,
                   next_future, output_dir, failures>>

\* line 224 (save_all_user_metrics_to_csv, lines 159-188); the script ends
save_all_user_metrics_to_csv ==
    /\ pc = "save"
    /\ output_dir' =
         WriteFile(WriteFile(output_dir, OverallFile, OverallRows(all_user_metrics)),
                   DailyFile, DailyRows(all_user_metrics))
    /\ exit_code' = 0
    /\ pc' = "exited"
    /\ UNCHANGED <<response, removed, request, start_date, end_date, branches, wpc, widx,
                   branch_activity, processed_commits, all_user_metrics,
                   next_future, printed, failures>>

Next ==
    \/ get_metrics
    \/ refresh_metrics
    \/ get_metrics_response
    \/ refresh_metrics_response
    \/ NoToken
    \/ RepoNotFound
    \/ StartRun
    \/ SelectBranches
    \/ Submit
    \/ \E b \in Branches : Start(b)
    \/ \E b \in Branches : NextCommit(b)
    \/ \E b \in Branches : \E raises \in BOOLEAN : CommitsFetchFails(b, raises)
    \/ \E b \in Branches : ClaimCommit(b)
    \/ \E b \in Branches : \E k \in 0..1 : ClaimCommitFilesFail(b, k)
    \/ MergeResult
    \/ ResultRaises
    \/ ReturnMetrics
    \/ RunFails
    \/ save_all_user_metrics_to_csv

Spec == Init /\ [][Next]_vars

\* The pool's threads and the main thread of the script are scheduled as
\* long as they can run; requests arrive when the caller sends them.
Tasks ==
    \E b \in Branches :
        \/ Start(b) \/ NextCommit(b) \/ ClaimCommit(b)
        \/ \E raises \in BOOLEAN : CommitsFetchFails(b, raises)
        \/ \E k \in 0..1 : ClaimCommitFilesFail(b, k)
MainThread ==
    \/ NoToken \/ RepoNotFound \/ StartRun \/ SelectBranches \/ Submit
    \/ MergeResult \/ ResultRaises \/ ReturnMetrics \/ RunFails
    \/ save_all_user_metrics_to_csv
FairSpec == Spec /\ WF_vars(Tasks) /\ WF_vars(MainThread)

\* ================================================================ claims
AllFinished == \A b \in InList(branches) : Finished(b)
AllDone == \A b \in InList(branches) : wpc[b] = "done"
Returned == pc = "save" \/ (pc = "exited" /\ exit_code = 0)

\* the commits the task of branch b counted, and those among them whose
\* files could not be read, as the printed lines report them
CountedBy(b) == {c \in Shas : Line("Processing commit", b, c) \in printed}
FilesFailedIn(b) == {c \in Shas : Line("Warning: Could not process files", b, c) \in printed}
ListingFailed(b) ==
    Finished(b) /\ Line("Warning: Could not process branch", b, "") \in printed

\* the merge loop run over the partial maps in the order p (p[1], ..., p[n])
RECURSIVE MergeInOrder(_, _)
MergeInOrder(p, n) ==
    IF n = 0 THEN EmptyMap
    ELSE MergeBranch(MergeInOrder(p, n - 1), branch_activity[p[n]])
Orders ==
    {p \in [1..Len(branches) -> InList(branches)] :
        \A i, j \in 1..Len(branches) : p[i] = p[j] => i = j}

\* C1: after get_all_user_metrics returned from a run without fetch
\* failures, every author's global `commits` is the number of distinct
\* commit identifiers of that author over the listings of all processed
\* branches (a commit listed by several branches is counted once).
ListedShas == UNION {InList(branch_commits(b)) : b \in InList(branches)}
C1_SharedCommitCountedOnce ==
    (Returned /\ failures = 0) =>
        \A u \in Users :
            Get(all_user_metrics, u).commits =
                Cardinality({c \in ListedShas : commit_author(c) = u})

\* C2: no two tasks are both past the membership check for the same commit
\* identifier with neither having inserted it yet.
C2_CheckAndInsertAtomic ==
    \A b1, b2 \in Branches :
        (b1 # b2 /\ wpc[b1] = "claim" /\ wpc[b2] = "claim") => commit(b1) # commit(b2)

\* C3: each partial map holds, for every commit its task counted, the
\* commit itself (commits, coding_days, commits_per_day), and the files and
\* lines of exactly those counted commits whose files were read without a
\* failure: a commit whose file read failed adds nothing to files_changed,
\* lines_added, lines_removed.
RECURSIVE ActivityOf(_, _)
ActivityOf(counted, failed) ==
    IF counted = {} THEN EmptyMap
    ELSE LET c == CHOOSE x \in counted : TRUE
             m == RecordCommit(ActivityOf(counted \ {c}, failed), c)
         IN IF c \in failed THEN m ELSE RecordFiles(m, c, Len(CommitFiles(c)))
C3_FailedFilesAddNothing ==
    \A b \in Branches : branch_activity[b] = ActivityOf(CountedBy(b), FilesFailedIn(b))

\* C4: a task whose commit listing failed (at the first page or later)
\* returns an empty partial map, and once get_all_user_metrics returned the
\* global map is the merge of every branch's partial map.
C4_FailedListingGivesEmptyMap ==
    /\ \A b \in Branches : ListingFailed(b) => branch_activity[b] = EmptyMap
    /\ Returned => \A p \in Orders : all_user_metrics = MergeInOrder(p, Len(branches))

\* C5: when a task raised an error out of process_branch, the error never
\* leaves get_all_user_metrics (the merge loop is not abandoned and the run
\* does not fail), and the map returned is the merge of the partial maps of
\* the branches whose task returned.
DoneBranches == SelectSeq(branches, LAMBDA b : wpc[b] = "done")
C5_RaisedTaskIsContained ==
    (\E b \in InList(branches) : wpc[b] = "raised") =>
        /\ pc # "unwind"
        /\ exit_code # 1
        /\ Returned =>
             all_user_metrics = MergeInOrder(DoneBranches, Len(DoneBranches))

\* C6: in every partial map and in the global map, every user's `commits`
\* is the sum of the values of `commits_per_day`.
CommitsMatchDays(m) ==
    \A u \in DOMAIN m : m[u].commits = SumCounts(m[u].commits_per_day)
C6_CommitsEqualSumPerDay ==
    /\ \A b \in Branches : CommitsMatchDays(branch_activity[b])
    /\ CommitsMatchDays(all_user_metrics)
\* a merged global map in which a user has two commits of one day, counted
\* by two different tasks, in a run with a failed fetch
C6_Witness ==
    /\ Returned /\ failures > 0
    /\ \E u \in DOMAIN all_user_metrics :
         /\ all_user_metrics[u].commits >= 2
         /\ Cardinality(DOMAIN all_user_metrics[u].commits_per_day) = 1
         /\ Cardinality({b \in Branches : u \in DOMAIN branch_activity[b]}) >= 2

\* C7: in every partial map and in the global map, `coding_days` holds
\* exactly the dates that are keys of `commits_per_day`.
DaysMatchKeys(m) ==
    \A u \in DOMAIN m :
        /\ m[u].coding_days = DOMAIN m[u].commits_per_day
        /\ Cardinality(m[u].coding_days) = Cardinality(DOMAIN m[u].commits_per_day)
C7_CodingDaysEqualDayKeys ==
    /\ \A b \in Branches : DaysMatchKeys(branch_activity[b])
    /\ DaysMatchKeys(all_user_metrics)
\* a global map merged from two partial maps that hold the same date for
\* the same user
C7_Witness ==
    /\ pc = "merge" /\ next_future > 2
    /\ \E u \in Users : \E b1, b2 \in Branches :
         /\ b1 # b2
         /\ u \in DOMAIN branch_activity[b1] /\ u \in DOMAIN branch_activity[b2]
         /\ branch_activity[b1][u].coding_days \cap branch_activity[b2][u].coding_days # {}
         /\ u \in DOMAIN all_user_metrics
         /\ all_user_metrics[u].commits >= 2

\* C8: the global map get_all_user_metrics returns is the map the merge
\* loop gives for every order of the tasks' partial maps (so all orders
\* give the same map).
C8_MergeOrderIrrelevant ==
    Returned => \A p \in Orders : MergeInOrder(p, Len(branches)) = all_user_metrics
\* three partial maps, two of them with different entries for one user
C8_Witness ==
    /\ Returned /\ AllDone /\ Len(branches) >= 3
    /\ \E u \in Users : \E b1, b2 \in InList(branches) :
         /\ u \in DOMAIN branch_activity[b1] /\ u \in DOMAIN branch_activity[b2]
         /\ branch_activity[b1][u] # branch_activity[b2][u]

\* C9: without a failed tip read, the branches selected for the window
\* [start_date, end_date] are exactly those whose tip date d has
\* start_date <= d <= end_date.
C9_SelectionIsWindow ==
    (pc = "submit" /\ failures = 0) =>
        InList(branches) =
            {b \in Branches : start_date <= TipTime(b) /\ TipTime(b) <= end_date}

\* C10: a run started for the caller's dates counts only commits whose
\* author timestamp lies between 00:00:00 of `from` and 23:59:59 of `to`,
\* and every row of the persisted daily table is for a date of that range.
C10_OnlyCallersWindowCounted ==
    /\ \A b \in Branches : \A c \in CountedBy(b) :
         InWindow(c, request.start_date, request.end_date)
    /\ (pc = "exited" /\ exit_code = 0) =>
         \A row \in output_dir[DailyFile] :
            /\ request.start_date <= row.Date * DaySeconds
            /\ row.Date * DaySeconds <= request.end_date

\* C11: a counted commit without a resolvable author is counted under
\* "Unknown": in the partial map of the task that counted it, Unknown's
\* `commits` is the number of such commits the task counted, and the
\* commit's date is in Unknown's coding_days and commits_per_day. It is
\* never dropped: once a task has gone through its whole listing, every
\* such commit of the listing was counted by some task.
AuthorlessCountedBy(b) == {c \in CountedBy(b) : ~HasAuthor(c)}
C11_MissingAuthorIsUnknown ==
    \A b \in Branches :
        /\ AuthorlessCountedBy(b) # {} =>
             /\ Unknown \in DOMAIN branch_activity[b]
             /\ branch_activity[b][Unknown].commits = Cardinality(AuthorlessCountedBy(b))
             /\ \A c \in AuthorlessCountedBy(b) :
                  /\ commit_date(c) \in branch_activity[b][Unknown].coding_days
                  /\ CountAt(branch_activity[b][Unknown].commits_per_day, commit_date(c)) >= 1
        /\ (wpc[b] = "done" /\ ~ListingFailed(b)) =>
             \A c \in InList(branch_commits(b)) :
                ~HasAuthor(c) => \E b2 \in Branches : c \in CountedBy(b2)
\* the commit without an author was counted and the global map returned
C11_Witness ==
    /\ Returned
    /\ \E b \in Branches : AuthorlessCountedBy(b) # {}
    /\ Unknown \in DOMAIN all_user_metrics

\* C12: when branch selection returned no branch, the run does not fail:
\* the global map stays empty, and the run ends with exit code 0 and an
\* overall table and a daily table without rows.
NoBranchSelected ==
    /\ pc \in {"submit", "merge", "unwind", "save", "exited"}
    /\ start_date # None
    /\ branches = << >>
C12_NoBranchesGivesEmptyTables ==
    NoBranchSelected =>
        /\ pc # "unwind"
        /\ all_user_metrics = EmptyMap
        /\ pc = "exited" =>
             /\ exit_code = 0
             /\ DOMAIN output_dir = {OverallFile, DailyFile}
             /\ output_dir[OverallFile] = {}
             /\ output_dir[DailyFile] = {}
\* a run without a selected branch has ended
C12_Witness == NoBranchSelected /\ pc = "exited"

\* C13: when the token is missing or the repository cannot be resolved, the
\* run has ended with exit code 1 and nothing of the aggregation happened:
\* no window, no selected branch, no task, no counted commit; and the step
\* that reports the error leaves the output directory as it was.
FatalError ==
    \/ Line("Error: GitHub token is required", 0, "") \in printed
    \/ Line("Error: repository not found", 0, "") \in printed
C13_FatalErrorBeforeAggregation ==
    /\ [](FatalError =>
            /\ pc = "exited" /\ exit_code = 1
            /\ start_date = None /\ branches = << >>
            /\ \A b \in Branches : wpc[b] = "none"
            /\ processed_commits = {} /\ all_user_metrics = EmptyMap)
    /\ [][FatalError' => output_dir' = output_dir]_vars
\* a fatal error in a run that found the tables of an earlier run
C13_Witness == FatalError /\ output_dir # EmptyDir

\* C14: when a run has ended with exit code 0 the output directory holds
\* exactly the overall table and the daily table of that run's global map,
\* and every run clears the directory before it selects branches.
TablesOf(m) ==
    [f \in {OverallFile, DailyFile} |->
        IF f = OverallFile THEN OverallRows(m) ELSE DailyRows(m)]
C14_OnlyLatestRunsTables ==
    /\ []((pc = "exited" /\ exit_code = 0) => output_dir = TablesOf(all_user_metrics))
    /\ []((pc = "idle" /\ exit_code = 0) => DOMAIN output_dir = {OverallFile, DailyFile})
    /\ [][(pc = "script" /\ pc' = "select") => output_dir' = EmptyDir]_vars
\* a run has just cleared the tables an earlier run had written
C14_Witness == pc = "select" /\ removed /\ output_dir = EmptyDir

\* C15: a /metrics request with valid dates whose run ended with exit code
\* 0 is answered 200 with the rows of the overall table that run wrote.
C15_MetricsAnswersWithTable ==
    (pc = "idle" /\ request.handler = "metrics" /\ exit_code = 0) =>
        /\ response.status = 200
        /\ response.rows = output_dir[OverallFile]

\* C16: a request whose `from` or `to` is missing or is no date never has a
\* run in progress; the step that receives it answers 400 or 500, leaves
\* the output directory unchanged and leaves the server waiting for the
\* next request.
ValidArgs(r) == r.from_date \in DateTexts /\ r.to_date \in DateTexts
C16_BadDatesRejected ==
    /\ [](pc # "idle" => ValidArgs(request))
    /\ []((pc = "idle" /\ request # NoRequest /\ ~ValidArgs(request)) =>
            response.status \in {400, 500})
    /\ [][(pc = "idle" /\ ~ValidArgs(request')) =>
            /\ pc' = "idle"
            /\ response'.status \in {400, 500}
            /\ output_dir' = output_dir]_vars
\* a text that is no date was answered 500 with the tables of an earlier
\* run still in place
C16_Witness ==
    /\ pc = "idle" /\ request.from_date = "2024-02-30"
    /\ response.status = 500 /\ output_dir # EmptyDir

\* C17 (as claimed): once the merge loop has merged a partial map, every
\* submitted task has finished.
C17_MergeAfterAllJoined ==
    (pc = "merge" /\ next_future > 1) => AllFinished
\* C17 (amended): every partial map the merge loop has merged is the map
\* of a task that had returned; tasks of later futures may still run.
C17_MergedOnlyOwnTaskDone ==
    pc \in {"merge", "unwind", "save"} =>
        \A i \in 1..Len(branches) : i < next_future => wpc[branches[i]] = "done"
\* a partial map was merged while another task is still running
C17_Witness ==
    /\ pc = "merge" /\ next_future > 1
    /\ all_user_metrics # EmptyMap
    /\ \E b \in InList(branches) : Active(b)

\* C18: with fair scheduling, a run that reached the merge loop eventually
\* returns from get_all_user_metrics, and by then every selected branch was
\* processed by its one task and merged once.
C18_RunEventuallyReturns ==
    /\ (pc = "merge") ~> (pc = "save")
    /\ [](pc = "save" => (AllDone /\ next_future = Len(branches) + 1))

\* C19: the tables written for a global map have one overall row per
\* author and one daily row per (author, date) key of commits_per_day,
\* every daily row has Commits >= 1, and per author the daily rows are as
\* many as Total Coding Days and their Commits sum to Total Commits.
RECURSIVE SumCommits(_)
SumCommits(rows) ==
    IF rows = {} THEN 0
    ELSE LET r == CHOOSE x \in rows : TRUE IN r.Commits + SumCommits(rows \ {r})
C19_TablesMatchMap ==
    (pc = "exited" /\ exit_code = 0) =>
        LET overall == output_dir[OverallFile]
            daily == output_dir[DailyFile]
            m == all_user_metrics
        IN /\ {r.User : r \in overall} = DOMAIN m
           /\ \A u \in DOMAIN m : Cardinality({r \in overall : r.User = u}) = 1
           /\ \A r \in daily :
                /\ r.User \in DOMAIN m
                /\ r.Date \in DOMAIN m[r.User].commits_per_day
                /\ r.Commits >= 1
           /\ \A u \in DOMAIN m : \A d \in DOMAIN m[u].commits_per_day :
                Cardinality({r \in daily : r.User = u /\ r.Date = d}) = 1
           /\ \A r \in overall :
                /\ Cardinality({x \in daily : x.User = r.User}) = r.TotalCodingDays
                /\ SumCommits({x \in daily : x.User = r.User}) = r.TotalCommits
\* tables with an author of two commits on one day
C19_Witness ==
    /\ pc = "exited" /\ exit_code = 0
    /\ \E r \in output_dir[OverallFile] : r.TotalCommits >= 2 /\ r.TotalCodingDays = 1

\* C20: while the script runs, a partial map changes only in a step of its
\* own task, which changes no other task's map and not the global map; the
\* global map and the merge loop advance only in a step of the main thread
\* that takes the map of a task that has returned, and that step changes no
\* partial map.
C20_PartialMapsPrivate ==
    [][(pc # "exited") =>
        /\ \A b \in Branches :
             branch_activity'[b] # branch_activity[b] =>
                /\ wpc[b] = "claim"
                /\ \A b2 \in Branches \ {b} :
                     branch_activity'[b2] = branch_activity[b2] /\ wpc'[b2] = wpc[b2]
                /\ all_user_metrics' = all_user_metrics
                /\ next_future' = next_future
        /\ (all_user_metrics' # all_user_metrics \/ next_future' # next_future) =>
                /\ pc = "merge"
                /\ wpc[branches[next_future]] = "done"
                /\ branch_activity' = branch_activity
                /\ wpc' = wpc
                /\ processed_commits' = processed_commits]_vars
\* two running tasks have both put a commit into processed_commits, and a
\* finished task's map was merged meanwhile
C20_Witness ==
    /\ pc = "merge" /\ next_future > 1
    /\ \E b1, b2 \in Branches :
         /\ b1 # b2 /\ Active(b1) /\ Active(b2)
         /\ CountedBy(b1) # {} /\ CountedBy(b2) # {}

====
